---- MODULE Spec2Model ----
(***************************************************************************)
(* The round-based tool-calling loop of ActionImpl (execute and            *)
(* executeSingleRound) driven by the streamed events of                    *)
(* ClaudeProvider.generateStream, both in                                  *)
(* src/services/llm/claude-provider.ts.                                    *)
(*                                                                         *)
(* One behaviour is one call of execute.  The model vendor, the external   *)
(* tool and the hooks are the environment: every event the vendor can      *)
(* stream, every outcome of the external tool and of a hook, and every     *)
(* order in which pending promises can settle is a step of Next.           *)
(***************************************************************************)
EXTENDS Integers, Sequences, FiniteSets, TLC

\* ------------------------------------------------------------------ bounds

\* The maxRounds the caller passes to the constructor.
MaxRoundsBound == 3
\* Tool-use blocks the vendor streams during one call of execute.
MaxToolCalls == 2
\* The same, where the caller's only hook is a beforeToolUse hook that lets every
\* call through (SpecObserved).
MaxObservedCalls == 3
\* Text events (block starts and text deltas) the vendor streams during one call of execute.
MaxTextEvents == 2
\* Tools the caller declares for the action, and tools the context supplies (SpecRegistry).
MaxDeclaredTools == 2
\* The maxRounds the caller passes where termination is checked (SpecLive).
MaxLiveRounds == 2

\* ------------------------------------------------------------------ values

\* A JavaScript value is a pair <<type, text>>.
Absent == <<"absent", "">>
Undefined == <<"undefined", "">>
EmptyObject == <<"object", "{}">>
Num(s) == <<"number", s>>
Str(s) == <<"string", s>>

\* The key-less input {} : destructuring it yields undefined for every field.
NoKey == "undefined"
EmptyInput == [key |-> NoKey, value |-> Undefined]

\* Keys of context.variables the model tracks.
OutputKey == "__action_output"
Keys == {"x", OutputKey}

\* A JSON.parse that rejects every text.
JSONParsesNothing(v) == FALSE

\* JSON.parse of a string value, as WriteContextTool.execute uses it.
JSONParses(v) == v \in {Str("42"), Str("2")}
JSONValue(v) == Num(v[2])

\* A parse that takes every text for an empty object.
JSONparseLenient(text) == [ok |-> TRUE, input |-> EmptyInput]

\* JSON.parse of the accumulated text of a tool-use block.
JSONparse(text) ==
  CASE text = "{}" -> [ok |-> TRUE, input |-> EmptyInput]
    [] text = "{\"value\":1}" -> [ok |-> TRUE, input |-> [key |-> NoKey, value |-> Num("1")]]
    [] text = "{\"value\":2}" -> [ok |-> TRUE, input |-> [key |-> NoKey, value |-> Num("2")]]
    [] text = "{\"key\":\"x\",\"value\":\"42\"}" ->
         [ok |-> TRUE, input |-> [key |-> "x", value |-> Str("42")]]
    [] text = "{\"key\":\"x\",\"value\":\"not-json\"}" ->
         [ok |-> TRUE, input |-> [key |-> "x", value |-> Str("not-json")]]
    [] text = "{\"key\":\"__action_output\",\"value\":\"2\"}" ->
         [ok |-> TRUE, input |-> [key |-> OutputKey, value |-> Str("2")]]
    [] OTHER -> [ok |-> FALSE, input |-> EmptyInput]

\* The argument documents the vendor streams, each as its partial_json fragments.
Docs(name) ==
  CASE name = "return_output" -> {<<"{\"value\":", "1}">>, <<"{\"value\":", "2}">>}
    [] name = "write_context" -> {<<"{\"key\":\"x\",\"value\":\"42\"}">>,
                                  <<"{\"key\":\"x\",\"value\":\"not-json\"}">>,
                                  <<"{\"key\":\"__action_output\",\"value\":\"2\"}">>}
    [] OTHER -> {<<>>}

RECURSIVE Concat(_)
Concat(frags) == IF frags = <<>> THEN "" ELSE Head(frags) \o Concat(Tail(frags))

\* The block may stop here: its document is complete, or it was cut short.
MayStop(name, acc) == acc # "" \/ <<>> \in Docs(name)

\* The fragments that may follow the text accumulated so far.
NextFragments(name, acc) ==
  UNION {{d[i] : i \in {j \in 1..Len(d) : Concat(SubSeq(d, 1, j - 1)) = acc}} : d \in Docs(name)}

\* ---------------------------------------------------------------- messages

\* A Message.  kind "string": content is the string named by text.  kind
\* "tool_use" / "tool_result": content is one block of that type; for a
\* tool_result, isArray tells whether the block's content is an array, content
\* lists the types of its sub-blocks and text is its text (or string content).
\* round is the call of executeSingleRound that built the message (0: execute).
Msg(role, kind, id, name, isArray, content, text, is_error, round) ==
  [role |-> role, kind |-> kind, id |-> id, name |-> name, isArray |-> isArray,
   content |-> content, text |-> text, is_error |-> is_error, round |-> round]

NoMsg == Msg("none", "none", 0, "", FALSE, <<>>, "", FALSE, 0)
StringMsg(role, text, round) == Msg(role, "string", 0, "", FALSE, <<>>, text, FALSE, round)
ToolUseMsg(id, name, round) == Msg("assistant", "tool_use", id, name, FALSE, <<>>, "", FALSE, round)
SkipResultMsg(id, round) == Msg("user", "tool_result", id, "", FALSE, <<>>, "skip", FALSE, round)

\* The three shapes of a successful tool result: {image, text}, {image}, and
\* anything without an image (serialised with JSON.stringify).
ResultContent(result) ==
  CASE result = "image+text" -> <<"image", "text">>
    [] result = "image" -> <<"image">>
    [] OTHER -> <<"text">>

ResultMsg(id, result, round) ==
  Msg("user", "tool_result", id, "", TRUE, ResultContent(result), "", FALSE, round)

\* A thrown value is <<class, message>>.
ThrownError == <<"Error", "boom">>
ThrownString == <<"string", "boom">>

errorMessage(err) == IF err[1] = "Error" THEN err[2] ELSE "Unknown error occurred"

ErrorResultMsg(id, err, round) ==
  Msg("user", "tool_result", id, "", TRUE, <<"text">>, "Error: " \o errorMessage(err), TRUE, round)

HasImage(m) == m.kind = "tool_result" /\ \E k \in 1..Len(m.content) : m.content[k] = "image"

\* ---------------------------------------------------------------- trimming

IsUser(msgs, i) == msgs[i].role = "user"

\* The message the walk meets first: the most recent user message (0: none).
LastUser(msgs) ==
  IF \E i \in 1..Len(msgs) : IsUser(msgs, i)
  THEN CHOOSE i \in 1..Len(msgs) : IsUser(msgs, i) /\ \A j \in (i + 1)..Len(msgs) : ~IsUser(msgs, j)
  ELSE 0

\* A walk that exempts no message.
TrimmedEvery(msgs, i) == IsUser(msgs, i)

\* The user messages the walk does not exempt.
Trimmed(msgs, i) == IsUser(msgs, i) /\ i # LastUser(msgs)

\* tool_content[0].type is read on an empty array: a TypeError.
ThrowsAt(msgs, i) ==
  Trimmed(msgs, i) /\ msgs[i].kind = "tool_result" /\ msgs[i].isArray /\ Len(msgs[i].content) = 0

TrimThrows(msgs) == \E i \in 1..Len(msgs) : ThrowsAt(msgs, i)

\* A walk that removes nothing.
StripNothing(content) == content

StripImages(content) == SelectSeq(content, LAMBDA b : b # "image")

\* The history after the walk; the walk goes from the end and stops at a throw.
handleHistoryImageMessages(msgs) ==
  [i \in 1..Len(msgs) |->
     IF /\ Trimmed(msgs, i)
        /\ msgs[i].kind = "tool_result" /\ msgs[i].isArray /\ Len(msgs[i].content) > 0
        /\ \A j \in i..Len(msgs) : ~ThrowsAt(msgs, j)
     THEN [msgs[i] EXCEPT !.content = StripImages(@)]
     ELSE msgs[i]]

\* ------------------------------------------------------------------- state

VARIABLES
  maxRounds,             \* ActionImpl.maxRounds, fixed by the constructor
  tools,                 \* ActionImpl.tools, fixed by the constructor
  contextTools,          \* context.tools
  toolRegistry,          \* execute's toolMap: the origin of the tool behind each name
  budget,                \* the tool-use blocks and text events the vendor may stream
  hasBefore, hasAfter,   \* whether context.callback.hooks has the hook
  pc,                    \* where execute is
  mode,                  \* the round in progress: "normal", "plain" or "budget"
  failure,               \* the error execute rejected with ("none": none)
  roundCount,            \* execute's local
  rounds,                \* calls of executeSingleRound so far
  messages,              \* execute's conversation
  variables,             \* context.variables
  skip, abort,           \* context.__skip, context.__abort
  output,                \* the value execute returned
  hasToolUse, response, assistantTextMessage, toolUseMessage,
  toolResultMessage, toolExecutionPromise, roundMessages,
                         \* executeSingleRound's locals of the round in progress
  openBlock,             \* the content block the vendor is streaming
  currentToolUse,        \* generateStream's accumulator
  streamedCalls,         \* the tool_use blocks of the vendor's final message
  textEvents,            \* text events streamed so far
  nextId,                \* the next tool-use id the vendor issues
  tasks,                 \* the tool executions launched, by tool-use id
  returns                \* the return_output executions made during the call, in order

roundVars == <<hasToolUse, response, assistantTextMessage, toolUseMessage,
               toolResultMessage, toolExecutionPromise, roundMessages>>
streamVars == <<openBlock, currentToolUse, streamedCalls, textEvents, nextId>>
configVars == <<maxRounds, budget, hasBefore, hasAfter, tools, contextTools, toolRegistry>>
loopVars == <<mode, failure, roundCount, rounds, output>>

vars == <<maxRounds, tools, contextTools, toolRegistry, budget, hasBefore, hasAfter, pc, mode, failure, roundCount, rounds,
          messages, variables, skip, abort, output, hasToolUse, response,
          assistantTextMessage, toolUseMessage, toolResultMessage,
          toolExecutionPromise, roundMessages, openBlock, currentToolUse,
          streamedCalls, textEvents, nextId, tasks, returns>>

Ids == 1..MaxObservedCalls

NoResponse == [present |-> FALSE, toolCalls |-> <<>>]
NoToolUse == [id |-> 0, name |-> "", accumulatedJson |-> ""]
NoTask == [pc |-> "none", round |-> 0, name |-> "", input |-> EmptyInput,
           result |-> "", threw |-> "none", vetoed |-> FALSE]

\* A settled unit: its input and result are garbage.
Done(t, threw) == [NoTask EXCEPT !.pc = "done", !.round = t.round, !.name = t.name,
                                 !.threw = threw]

\* The tool registry of a round: execute's toolMap, or the registry of the
\* forced round, which holds the return tool alone.
toolMap(m) == IF m = "normal" THEN DOMAIN toolRegistry ELSE {"return_output"}

\* A tool is its name and where it comes from: "declared" with the action,
\* "context" (supplied by the context) or "synthetic" (built in).
Tool(name, origin) == [name |-> name, origin |-> origin]
writeContextTool == Tool("write_context", "synthetic")
returnTool == Tool("return_output", "synthetic")

\* new Map(), Map.set, and forEach(tool => toolMap.set(tool.name, tool)).
EmptyMap == [n \in {} |-> ""]
Set(map, tool) ==
  [n \in DOMAIN map \cup {tool.name} |-> IF n = tool.name THEN tool.origin ELSE map[n]]
RECURSIVE SetAll(_, _)
SetAll(map, list) == IF list = <<>> THEN map ELSE SetAll(Set(map, Head(list)), Tail(list))

\* The constructor appends the write_context tool to the declared tools.
ConstructorTools(declared) == declared \o <<writeContextTool>>

\* The tools declared with the action under study: one external tool.
DeclaredTools == <<Tool("screenshot", "declared")>>

\* The constructor keeps the default of 10 rounds for a falsy config.maxRounds.
DefaultMaxRounds == 10
Constructor(configMaxRounds) ==
  IF configMaxRounds # 0 THEN configMaxRounds ELSE DefaultMaxRounds

\* The hooks a caller supplies: none, beforeToolUse alone, afterToolUse alone.
Hooks == {<<FALSE, FALSE>>, <<TRUE, FALSE>>, <<FALSE, TRUE>>}

\* The names the vendor calls: a tool of params.tools, or a name it made up.
ToolNames(m) == toolMap(m) \cup {"ghost"}

Init ==
  /\ maxRounds = Constructor(MaxRoundsBound)
  /\ tools = ConstructorTools(DeclaredTools)
  /\ contextTools = <<>>
  /\ toolRegistry = EmptyMap
  /\ budget = [tools |-> MaxToolCalls, text |-> MaxTextEvents]
  /\ \E hooks \in Hooks : hasBefore = hooks[1] /\ hasAfter = hooks[2]
  /\ pc = "start"
  /\ mode = "normal"
  /\ failure = "none"
  /\ roundCount = 0
  /\ rounds = 0
  /\ messages = <<>>
  /\ variables = [k \in Keys |-> Absent]
  /\ skip = FALSE
  /\ abort = FALSE
  /\ output = Absent
  /\ hasToolUse = FALSE
  /\ response = NoResponse
  /\ assistantTextMessage = ""
  /\ toolUseMessage = NoMsg
  /\ toolResultMessage = NoMsg
  /\ toolExecutionPromise = 0
  /\ roundMessages = <<>>
  /\ openBlock = "none"
  /\ currentToolUse = NoToolUse
  /\ streamedCalls = <<>>
  /\ textEvents = 0
  /\ nextId = 1
  /\ tasks = [i \in Ids |-> NoTask]
  /\ returns = <<>>

\* ----------------------------------------------------------------- execute

\* execute, up to the head of its loop.
Execute ==
  /\ pc = "start"
  /\ messages' = <<StringMsg("system", "system prompt", 0), StringMsg("user", "user prompt", 0)>>
  /\ roundCount' = 0
  /\ toolRegistry' = Set(SetAll(SetAll(EmptyMap, tools), contextTools), returnTool)
  /\ pc' = "while"
  /\ UNCHANGED <<maxRounds, budget, hasBefore, hasAfter, tools, contextTools, mode, failure, rounds, variables, skip, abort, output,
                 roundVars, streamVars, tasks, returns>>

\* A loop that runs one round past the budget.
LoopConditionInclusive(count, max) == count <= max

LoopCondition(count, max) == count < max

WhileEnter ==
  /\ pc = "while"
  /\ LoopCondition(roundCount, maxRounds)
  /\ roundCount' = roundCount + 1
  /\ mode' = "normal"
  /\ pc' = "call"
  /\ UNCHANGED <<configVars, failure, rounds, messages, variables, skip, abort, output,
                 roundVars, streamVars, tasks, returns>>

WhileExit ==
  /\ pc = "while"
  /\ ~LoopCondition(roundCount, maxRounds)
  /\ pc' = "finalize"
  /\ UNCHANGED <<configVars, loopVars, messages, variables, skip, abort,
                 roundVars, streamVars, tasks, returns>>

\* executeSingleRound, up to the await of generateStream: fresh locals, the
\* history trimmed in place, the stream opened.
ExecuteSingleRound ==
  /\ pc = "call"
  /\ rounds' = rounds + 1
  /\ hasToolUse' = FALSE
  /\ response' = NoResponse
  /\ assistantTextMessage' = ""
  /\ toolUseMessage' = NoMsg
  /\ toolResultMessage' = NoMsg
  /\ toolExecutionPromise' = 0
  /\ roundMessages' = <<>>
  /\ messages' = handleHistoryImageMessages(messages)
  /\ IF TrimThrows(messages)
     THEN pc' = "failed" /\ failure' = "TypeError"
     ELSE pc' = "stream" /\ failure' = failure
  /\ openBlock' = "none"
  /\ currentToolUse' = NoToolUse
  /\ streamedCalls' = <<>>
  /\ UNCHANGED <<configVars, mode, roundCount, variables, skip, abort, output,
                 textEvents, nextId, tasks, returns>>

\* ------------------------------------------------------------------- tools

\* WriteContextTool.execute and the return tool's execute, as they change
\* context.variables; the external tool leaves the tracked keys alone.
executeTool(name, input, store) ==
  CASE name = "return_output" -> [store EXCEPT ![OutputKey] = input.value]
    [] name = "write_context" /\ input.key \in Keys ->
         [store EXCEPT ![input.key] = IF JSONParses(input.value) THEN JSONValue(input.value)
                                      ELSE input.value]
    [] OTHER -> store

\* execute is suspended at an await (of the stream call, of the tool unit, of
\* executeSingleRound): the points where a pending tool unit can resume.  Between
\* them execute runs synchronously, and after it settled nothing is observed.
Suspended == pc \in {"stream", "join", "returned"}

\* The tool unit from its check of the flags to its await of tool.execute:
\* the record of what it leaves behind.
AfterBeforeHook(id, t, sk, ab) ==
  IF sk \/ ab
  THEN [task |-> Done(t, "none"), variables |-> variables,
        returns |-> returns, settled |-> TRUE, msg |-> SkipResultMsg(id, t.round)]
  ELSE [task |-> [t EXCEPT !.pc = "execute"],
        variables |-> executeTool(t.name, t.input, variables),
        returns |-> IF t.name = "return_output"
                    THEN Append(returns, [round |-> t.round, value |-> t.input.value])
                    ELSE returns,
        settled |-> FALSE, msg |-> NoMsg]

\* The tool unit caught a thrown value.
Caught(id, t, err) ==
  [task |-> Done(t, err[1]), variables |-> variables,
   returns |-> returns, settled |-> TRUE, msg |-> ErrorResultMsg(id, err, t.round)]

\* The tool unit built its result message.
Resulted(id, t, result) ==
  [task |-> Done(t, "none"), variables |-> variables,
   returns |-> returns, settled |-> TRUE, msg |-> ResultMsg(id, result, t.round)]

\* The tool unit awaits the afterToolUse hook.
AwaitAfter(t, result) ==
  [task |-> [t EXCEPT !.pc = "after", !.result = result], variables |-> variables,
   returns |-> returns, settled |-> FALSE, msg |-> NoMsg]

\* The execute of the two synthetic tools has no await: its promise is resolved
\* when the unit awaits it, so the unit resumes in the next microtask, ahead of
\* the next stream event and of every continuation of execute queued later.
Prompt(id) == tasks[id].pc = "execute" /\ tasks[id].name \in {"return_output", "write_context"}

\* A stream that reads no event while a tool unit is pending.
QuietWhenIdle == \A id \in DOMAIN tasks : tasks[id].pc \notin {"before", "execute", "after"}

Quiet == \A id \in DOMAIN tasks : ~Prompt(id)

\* A unit writes the toolResultMessage of the round that launched it; once
\* that round has read its locals the write is to a dead closure.
RoundReads(t) == t.round = rounds /\ pc \in {"stream", "join"}

Apply(id, r) ==
  /\ tasks' = [tasks EXCEPT ![id] = r.task]
  /\ variables' = r.variables
  /\ returns' = r.returns
  /\ toolResultMessage' = IF r.settled /\ RoundReads(r.task) THEN r.msg ELSE toolResultMessage

\* ------------------------------------------------------------ generateStream

\* content_block_start of a text block: onContent('').
ContentBlockStartText ==
  /\ pc = "stream"
  /\ Quiet
  /\ openBlock = "none"
  /\ textEvents < budget.text
  /\ openBlock' = "text"
  /\ textEvents' = textEvents + 1
  /\ UNCHANGED <<configVars, pc, loopVars, messages, variables, skip, abort, roundVars,
                 currentToolUse, streamedCalls, nextId, tasks, returns>>

\* String.trim() of a delta is non-empty.
NonBlank(text) == text \notin {"", " "}

onContent(buffer, content) == IF NonBlank(content) THEN buffer \o content ELSE buffer

\* content_block_delta with a text_delta.
TextDelta ==
  /\ pc = "stream"
  /\ Quiet
  /\ openBlock = "text"
  /\ textEvents < budget.text
  /\ \E text \in {" ", "4"} : assistantTextMessage' = onContent(assistantTextMessage, text)
  /\ textEvents' = textEvents + 1
  /\ UNCHANGED <<configVars, pc, loopVars, messages, variables, skip, abort, hasToolUse,
                 response, toolUseMessage, toolResultMessage, toolExecutionPromise,
                 roundMessages, openBlock, currentToolUse, streamedCalls, nextId, tasks,
                 returns>>

\* content_block_start of a tool_use block.
ContentBlockStartToolUse ==
  /\ pc = "stream"
  /\ Quiet
  /\ openBlock = "none"
  /\ nextId <= budget.tools
  /\ \E name \in ToolNames(mode) :
       currentToolUse' = [id |-> nextId, name |-> name, accumulatedJson |-> ""]
  /\ nextId' = nextId + 1
  /\ openBlock' = "tool_use"
  /\ UNCHANGED <<configVars, pc, loopVars, messages, variables, skip, abort, roundVars,
                 streamedCalls, textEvents, tasks, returns>>

\* content_block_delta with an input_json_delta.
InputJsonDelta ==
  /\ pc = "stream"
  /\ Quiet
  /\ openBlock = "tool_use"
  /\ currentToolUse # NoToolUse
  /\ \E partial_json \in NextFragments(currentToolUse.name, currentToolUse.accumulatedJson) :
       currentToolUse' = [currentToolUse EXCEPT !.accumulatedJson = @ \o partial_json]
  /\ UNCHANGED <<configVars, pc, loopVars, messages, variables, skip, abort, roundVars,
                 openBlock, streamedCalls, textEvents, nextId, tasks, returns>>

\* content_block_stop of a text block: no accumulator is open.
TextBlockStop ==
  /\ pc = "stream"
  /\ Quiet
  /\ openBlock = "text"
  /\ currentToolUse = NoToolUse
  /\ openBlock' = "none"
  /\ UNCHANGED <<configVars, pc, loopVars, messages, variables, skip, abort, roundVars,
                 currentToolUse, streamedCalls, textEvents, nextId, tasks, returns>>

\* The ToolCall content_block_stop builds from the accumulator.
ParsedCall == JSONparse(IF currentToolUse.accumulatedJson = "" THEN "{}"
                        ELSE currentToolUse.accumulatedJson)

\* A ToolCall that drops the streamed arguments.
toolCallWithoutInput == [id |-> currentToolUse.id, name |-> currentToolUse.name, input |-> EmptyInput]

toolCall == [id |-> currentToolUse.id, name |-> currentToolUse.name, input |-> ParsedCall.input]

\* content_block_stop, JSON.parse throws: the catch calls onError and the
\* stream call resolves.
ToolBlockStopUnparsable ==
  /\ pc = "stream"
  /\ Quiet
  /\ openBlock = "tool_use"
  /\ currentToolUse # NoToolUse
  /\ MayStop(currentToolUse.name, currentToolUse.accumulatedJson)
  /\ ~ParsedCall.ok
  /\ pc' = "join"
  /\ openBlock' = "none"
  /\ currentToolUse' = NoToolUse
  /\ streamedCalls' = <<>>
  /\ UNCHANGED <<configVars, loopVars, messages, variables, skip, abort, roundVars,
                 textEvents, nextId, tasks, returns>>

\* content_block_stop, onToolUse finds no tool of that name: the handler's
\* promise rejects, unobserved, after it set hasToolUse.
ToolBlockStopNotFound ==
  /\ pc = "stream"
  /\ Quiet
  /\ openBlock = "tool_use"
  /\ currentToolUse # NoToolUse
  /\ MayStop(currentToolUse.name, currentToolUse.accumulatedJson)
  /\ ParsedCall.ok
  /\ toolCall.name \notin toolMap(mode)
  /\ hasToolUse' = TRUE
  /\ streamedCalls' = Append(streamedCalls, toolCall)
  /\ currentToolUse' = NoToolUse
  /\ openBlock' = "none"
  /\ UNCHANGED <<configVars, pc, loopVars, messages, variables, skip, abort, response,
                 assistantTextMessage, toolUseMessage, toolResultMessage,
                 toolExecutionPromise, roundMessages, textEvents, nextId, tasks, returns>>

\* content_block_stop, onToolUse launches the tool unit, which runs up to its
\* first await: of the beforeToolUse hook if there is one, else of tool.execute.
ToolBlockStopLaunch ==
  /\ pc = "stream"
  /\ Quiet
  /\ openBlock = "tool_use"
  /\ currentToolUse # NoToolUse
  /\ MayStop(currentToolUse.name, currentToolUse.accumulatedJson)
  /\ ParsedCall.ok
  /\ toolCall.name \in toolMap(mode)
  /\ hasToolUse' = TRUE
  /\ toolUseMessage' = ToolUseMsg(toolCall.id, toolCall.name, rounds)
  /\ toolExecutionPromise' = toolCall.id
  /\ skip' = FALSE
  /\ LET t == [pc |-> "before", round |-> rounds, name |-> toolCall.name,
               input |-> toolCall.input, result |-> "", threw |-> "none", vetoed |-> FALSE]
     IN IF hasBefore
        THEN /\ tasks' = [tasks EXCEPT ![toolCall.id] = t]
             /\ UNCHANGED <<variables, returns, toolResultMessage>>
        ELSE Apply(toolCall.id, AfterBeforeHook(toolCall.id, t, FALSE, abort))
  /\ streamedCalls' = Append(streamedCalls, toolCall)
  /\ currentToolUse' = NoToolUse
  /\ openBlock' = "none"
  /\ UNCHANGED <<configVars, pc, loopVars, messages, abort, response, assistantTextMessage,
                 roundMessages, textEvents, nextId>>

\* ClaudeProvider.processResponse of the final message.
processResponse(calls) == [present |-> TRUE, toolCalls |-> calls]

\* The stream ends: onComplete with the final message.
StreamComplete ==
  /\ pc = "stream"
  /\ Quiet
  /\ openBlock = "none"
  /\ response' = processResponse(streamedCalls)
  /\ pc' = "join"
  /\ streamedCalls' = <<>>
  /\ UNCHANGED <<configVars, loopVars, messages, variables, skip, abort, hasToolUse,
                 assistantTextMessage, toolUseMessage, toolResultMessage,
                 toolExecutionPromise, roundMessages, openBlock, currentToolUse,
                 textEvents, nextId, tasks, returns>>

\* The transport raises: the catch calls onError, which only logs.
StreamError ==
  /\ pc = "stream"
  /\ Quiet
  /\ pc' = "join"
  /\ openBlock' = "none"
  /\ currentToolUse' = NoToolUse
  /\ streamedCalls' = <<>>
  /\ UNCHANGED <<configVars, loopVars, messages, variables, skip, abort, roundVars,
                 textEvents, nextId, tasks, returns>>

\* --------------------------------------------------------------- tool unit

\* What the unit does not touch.
unitFrame == <<configVars, pc, loopVars, messages, hasToolUse, response,
               assistantTextMessage, toolUseMessage, toolExecutionPromise, roundMessages,
               streamVars>>

\* The input a beforeToolUse hook may hand back for a return_output call.
HookInputs(t) ==
  IF t.name = "return_output" THEN {t.input, [t.input EXCEPT !.value = Num("9")]}
  ELSE {t.input}

\* beforeToolUse resolves, with a replacement input or none; the unit checks
\* the flags as they are by then and calls tool.execute.
BeforeToolUseReturns(id) ==
  /\ Suspended
  /\ tasks[id].pc = "before"
  /\ \E modified_input \in HookInputs(tasks[id]) :
       Apply(id, AfterBeforeHook(id, [tasks[id] EXCEPT !.input = modified_input], skip, abort))
  /\ UNCHANGED <<unitFrame, skip, abort>>

\* beforeToolUse sets context.__skip for the call; it resolves later.
BeforeToolUseSkips(id) ==
  /\ Suspended
  /\ tasks[id].pc = "before"
  /\ ~tasks[id].vetoed
  /\ skip' = TRUE
  /\ tasks' = [tasks EXCEPT ![id].vetoed = TRUE]
  /\ UNCHANGED <<unitFrame, abort, variables, returns, toolResultMessage>>

\* beforeToolUse sets context.__abort for the call; it resolves later.
BeforeToolUseAborts(id) ==
  /\ Suspended
  /\ tasks[id].pc = "before"
  /\ ~tasks[id].vetoed
  /\ abort' = TRUE
  /\ tasks' = [tasks EXCEPT ![id].vetoed = TRUE]
  /\ UNCHANGED <<unitFrame, skip, variables, returns, toolResultMessage>>

\* beforeToolUse rejects.
BeforeToolUseThrows(id) ==
  /\ Suspended
  /\ tasks[id].pc = "before"
  /\ Apply(id, Caught(id, tasks[id], ThrownError))
  /\ UNCHANGED <<unitFrame, skip, abort>>

\* The results tool.execute can resolve with.
Results(name) == IF name = "screenshot" THEN {"image+text", "image", "text"} ELSE {"text"}

\* tool.execute resolves; the unit calls afterToolUse if there is one, else
\* builds the result message.
ToolExecuteReturns(id) ==
  /\ Suspended
  /\ tasks[id].pc = "execute"
  /\ \E result \in Results(tasks[id].name) :
       Apply(id, IF hasAfter THEN AwaitAfter(tasks[id], result)
                 ELSE Resulted(id, tasks[id], result))
  /\ UNCHANGED <<unitFrame, skip, abort>>

\* The external tool's execute rejects, with an Error or with a thrown string.
ToolExecuteThrows(id) ==
  /\ Suspended
  /\ tasks[id].pc = "execute"
  /\ tasks[id].name = "screenshot"
  /\ \E err \in {ThrownError, ThrownString} : Apply(id, Caught(id, tasks[id], err))
  /\ UNCHANGED <<unitFrame, skip, abort>>

\* afterToolUse resolves.
AfterToolUseReturns(id) ==
  /\ Suspended
  /\ tasks[id].pc = "after"
  /\ Apply(id, Resulted(id, tasks[id], tasks[id].result))
  /\ UNCHANGED <<unitFrame, skip, abort>>

\* afterToolUse rejects.
AfterToolUseThrows(id) ==
  /\ Suspended
  /\ tasks[id].pc = "after"
  /\ Apply(id, Caught(id, tasks[id], ThrownError))
  /\ UNCHANGED <<unitFrame, skip, abort>>

\* ------------------------------------------------- executeSingleRound, end

\* An awaited promise that never settles.
SettledNever == FALSE

\* The promise the round awaits has settled (or there is none to await).
Settled ==
  IF toolExecutionPromise = 0 THEN TRUE ELSE tasks[toolExecutionPromise].pc = "done"

\* The round's contribution, in order.
Assemble(text, use, result) ==
  (IF text # "" THEN <<StringMsg("assistant", text, rounds)>> ELSE <<>>)
  \o (IF use # NoMsg THEN <<use>> ELSE <<>>)
  \o (IF result # NoMsg THEN <<result>> ELSE <<>>)

\* A check of the flag that never sees it.
AbortNeverObserved(flag) == FALSE

\* if (context.__abort)
AbortObserved(flag) == flag

\* After the stream call and the awaited tool unit: abort throws.
RoundAborts ==
  /\ pc = "join"
  /\ Quiet
  /\ Settled
  /\ AbortObserved(abort)
  /\ pc' = "failed"
  /\ failure' = "Abort"
  /\ UNCHANGED <<configVars, mode, roundCount, rounds, output, messages, variables, skip,
                 abort, roundVars, streamVars, tasks, returns>>

\* After the stream call and the awaited tool unit: the round returns.
RoundReturns ==
  /\ pc = "join"
  /\ Quiet
  /\ Settled
  /\ ~AbortObserved(abort)
  /\ roundMessages' = Assemble(assistantTextMessage, toolUseMessage, toolResultMessage)
  /\ pc' = "returned"
  /\ UNCHANGED <<configVars, loopVars, messages, variables, skip, abort, hasToolUse,
                 response, assistantTextMessage, toolUseMessage, toolResultMessage,
                 toolExecutionPromise, streamVars, tasks, returns>>

\* ------------------------------------------------------- execute, the loop

\* messages.push(...roundMessages)
AppendRoundMessages ==
  /\ pc = "returned"
  /\ Quiet
  /\ messages' = messages \o roundMessages
  /\ pc' = IF mode = "normal" THEN "decide" ELSE "forced"
  /\ UNCHANGED <<configVars, loopVars, variables, skip, abort, roundVars, streamVars,
                 tasks, returns>>

IsPlainText(toolUse, resp) == ~toolUse /\ resp.present

HasReturnCall(resp) ==
  resp.present /\ \E i \in 1..Len(resp.toolCalls) : resp.toolCalls[i].name = "return_output"

\* A budget check that never fires.
BudgetNeverReached(count, max) == FALSE

BudgetReached(count, max) == count = max

\* The round the loop forces after this one, if any.
ForcedRound(toolUse, resp, count, max) ==
  CASE IsPlainText(toolUse, resp) -> "plain"
    [] ~IsPlainText(toolUse, resp) /\ HasReturnCall(resp) -> "none"
    [] ~IsPlainText(toolUse, resp) /\ ~HasReturnCall(resp) /\ BudgetReached(count, max) -> "budget"
    [] OTHER -> "none"

\* No tool use and a response: ask for an explicit return, in a forced round.
PlainTextBranch ==
  /\ pc = "decide"
  /\ ForcedRound(hasToolUse, response, roundCount, maxRounds) = "plain"
  /\ messages' = Append(messages, StringMsg("user", "Please process the above information", 0))
  /\ mode' = "plain"
  /\ pc' = "call"
  /\ UNCHANGED <<configVars, failure, roundCount, rounds, output, variables, skip, abort,
                 roundVars, streamVars, tasks, returns>>

\* The response calls return_output: break.
ReturnOutputBranch ==
  /\ pc = "decide"
  /\ ~IsPlainText(hasToolUse, response)
  /\ HasReturnCall(response)
  /\ pc' = "finalize"
  /\ UNCHANGED <<configVars, loopVars, messages, variables, skip, abort, roundVars,
                 streamVars, tasks, returns>>

\* The last round of the budget: ask for the best result, in a forced round.
BudgetBranch ==
  /\ pc = "decide"
  /\ ForcedRound(hasToolUse, response, roundCount, maxRounds) = "budget"
  /\ messages' = Append(messages, StringMsg("user", "Maximum number of steps reached", 0))
  /\ mode' = "budget"
  /\ pc' = "call"
  /\ UNCHANGED <<configVars, failure, roundCount, rounds, output, variables, skip, abort,
                 roundVars, streamVars, tasks, returns>>

\* None of the three: back to the head of the loop.
ContinueBranch ==
  /\ pc = "decide"
  /\ ~IsPlainText(hasToolUse, response)
  /\ ~HasReturnCall(response)
  /\ ~BudgetReached(roundCount, maxRounds)
  /\ pc' = "while"
  /\ UNCHANGED <<configVars, loopVars, messages, variables, skip, abort, roundVars,
                 streamVars, tasks, returns>>

\* After the forced round's messages are pushed: the plain-text branch
\* breaks, the budget branch falls through to the head of the loop.
ForcedRoundDone ==
  /\ pc = "forced"
  /\ pc' = IF mode = "plain" THEN "finalize" ELSE "while"
  /\ UNCHANGED <<configVars, loopVars, messages, variables, skip, abort, roundVars,
                 streamVars, tasks, returns>>

\* Map.get: undefined for a missing key.
Get(store, key) == IF store[key] = Absent THEN Undefined ELSE store[key]

\* The value execute returns for what it read under __action_output.
Returned(value) == IF value = Undefined THEN EmptyObject ELSE value

\* A delete that removes nothing.
DeleteNothing(store, key) == store

\* Map.delete
Delete(store, key) == [store EXCEPT ![key] = Absent]

\* Read the output, delete the key, return.
Finalize ==
  /\ pc = "finalize"
  /\ output' = Returned(Get(variables, OutputKey))
  /\ variables' = Delete(variables, OutputKey)
  /\ pc' = "done"
  /\ UNCHANGED <<configVars, mode, failure, roundCount, rounds, messages, skip, abort,
                 roundVars, streamVars, tasks, returns>>

\* ----------------------------------------------------------- specification

Next ==
  \/ Execute
  \/ WhileEnter
  \/ WhileExit
  \/ ExecuteSingleRound
  \/ ContentBlockStartText
  \/ TextDelta
  \/ ContentBlockStartToolUse
  \/ InputJsonDelta
  \/ TextBlockStop
  \/ ToolBlockStopUnparsable
  \/ ToolBlockStopNotFound
  \/ ToolBlockStopLaunch
  \/ StreamComplete
  \/ StreamError
  \/ \E id \in Ids : BeforeToolUseReturns(id)
  \/ \E id \in Ids : BeforeToolUseSkips(id)
  \/ \E id \in Ids : BeforeToolUseAborts(id)
  \/ \E id \in Ids : BeforeToolUseThrows(id)
  \/ \E id \in Ids : ToolExecuteReturns(id)
  \/ \E id \in Ids : ToolExecuteThrows(id)
  \/ \E id \in Ids : AfterToolUseReturns(id)
  \/ \E id \in Ids : AfterToolUseThrows(id)
  \/ RoundAborts
  \/ RoundReturns
  \/ AppendRoundMessages
  \/ PlainTextBranch
  \/ ReturnOutputBranch
  \/ BudgetBranch
  \/ ContinueBranch
  \/ ForcedRoundDone
  \/ Finalize

Spec == Init /\ [][Next]_vars

\* The same program under a caller whose only hook is a beforeToolUse hook that
\* observes: it neither sets a flag nor throws.  The vendor streams no text.
InitObserved ==
  /\ maxRounds = Constructor(MaxRoundsBound)
  /\ tools = ConstructorTools(DeclaredTools)
  /\ contextTools = <<>>
  /\ toolRegistry = EmptyMap
  /\ budget = [tools |-> MaxObservedCalls, text |-> 0]
  /\ hasBefore = TRUE
  /\ hasAfter = FALSE
  /\ pc = "start"
  /\ mode = "normal"
  /\ failure = "none"
  /\ roundCount = 0
  /\ rounds = 0
  /\ messages = <<>>
  /\ variables = [k \in Keys |-> Absent]
  /\ skip = FALSE
  /\ abort = FALSE
  /\ output = Absent
  /\ hasToolUse = FALSE
  /\ response = NoResponse
  /\ assistantTextMessage = ""
  /\ toolUseMessage = NoMsg
  /\ toolResultMessage = NoMsg
  /\ toolExecutionPromise = 0
  /\ roundMessages = <<>>
  /\ openBlock = "none"
  /\ currentToolUse = NoToolUse
  /\ streamedCalls = <<>>
  /\ textEvents = 0
  /\ nextId = 1
  /\ tasks = [i \in Ids |-> NoTask]
  /\ returns = <<>>

NextObserved ==
  \/ Execute
  \/ WhileEnter
  \/ WhileExit
  \/ ExecuteSingleRound
  \/ ContentBlockStartToolUse
  \/ InputJsonDelta
  \/ ToolBlockStopUnparsable
  \/ ToolBlockStopNotFound
  \/ ToolBlockStopLaunch
  \/ StreamComplete
  \/ StreamError
  \/ \E id \in Ids : BeforeToolUseReturns(id)
  \/ \E id \in Ids : ToolExecuteReturns(id)
  \/ \E id \in Ids : ToolExecuteThrows(id)
  \/ RoundReturns
  \/ AppendRoundMessages
  \/ PlainTextBranch
  \/ ReturnOutputBranch
  \/ BudgetBranch
  \/ ContinueBranch
  \/ ForcedRoundDone
  \/ Finalize

SpecObserved == InitObserved /\ [][NextObserved]_vars

\* The program where its termination is checked: the vendor streams tool-use
\* blocks only, every stream settles, every tool and hook completes and every
\* continuation of execute runs.
InitLive ==
  /\ maxRounds = Constructor(MaxLiveRounds)
  /\ tools = ConstructorTools(DeclaredTools)
  /\ contextTools = <<>>
  /\ toolRegistry = EmptyMap
  /\ budget = [tools |-> MaxToolCalls, text |-> 0]
  /\ \E hooks \in Hooks : hasBefore = hooks[1] /\ hasAfter = hooks[2]
  /\ pc = "start"
  /\ mode = "normal"
  /\ failure = "none"
  /\ roundCount = 0
  /\ rounds = 0
  /\ messages = <<>>
  /\ variables = [k \in Keys |-> Absent]
  /\ skip = FALSE
  /\ abort = FALSE
  /\ output = Absent
  /\ hasToolUse = FALSE
  /\ response = NoResponse
  /\ assistantTextMessage = ""
  /\ toolUseMessage = NoMsg
  /\ toolResultMessage = NoMsg
  /\ toolExecutionPromise = 0
  /\ roundMessages = <<>>
  /\ openBlock = "none"
  /\ currentToolUse = NoToolUse
  /\ streamedCalls = <<>>
  /\ textEvents = 0
  /\ nextId = 1
  /\ tasks = [i \in Ids |-> NoTask]
  /\ returns = <<>>

NextLive ==
  \/ Execute
  \/ WhileEnter
  \/ WhileExit
  \/ ExecuteSingleRound
  \/ ContentBlockStartToolUse
  \/ InputJsonDelta
  \/ ToolBlockStopUnparsable
  \/ ToolBlockStopNotFound
  \/ ToolBlockStopLaunch
  \/ StreamComplete
  \/ StreamError
  \/ \E id \in Ids : BeforeToolUseReturns(id)
  \/ \E id \in Ids : BeforeToolUseSkips(id)
  \/ \E id \in Ids : BeforeToolUseAborts(id)
  \/ \E id \in Ids : BeforeToolUseThrows(id)
  \/ \E id \in Ids : ToolExecuteReturns(id)
  \/ \E id \in Ids : ToolExecuteThrows(id)
  \/ \E id \in Ids : AfterToolUseReturns(id)
  \/ \E id \in Ids : AfterToolUseThrows(id)
  \/ RoundAborts
  \/ RoundReturns
  \/ AppendRoundMessages
  \/ PlainTextBranch
  \/ ReturnOutputBranch
  \/ BudgetBranch
  \/ ContinueBranch
  \/ ForcedRoundDone
  \/ Finalize

SpecLive == InitLive /\ [][NextLive]_vars /\ WF_vars(NextLive)

\* The registry execute builds, over the tools a caller may declare and a
\* context may supply: up to MaxDeclaredTools of each, under any of the names.
RegistryNames == {"screenshot", "write_context", "return_output"}
ToolLists(origin) ==
  UNION {[1..n -> {Tool(name, origin) : name \in RegistryNames}] : n \in 0..MaxDeclaredTools}

InitRegistry ==
  /\ maxRounds = Constructor(MaxRoundsBound)
  /\ \E declared \in ToolLists("declared") : tools = ConstructorTools(declared)
  /\ contextTools \in ToolLists("context")
  /\ toolRegistry = EmptyMap
  /\ budget = [tools |-> MaxToolCalls, text |-> MaxTextEvents]
  /\ hasBefore = FALSE
  /\ hasAfter = FALSE
  /\ pc = "start"
  /\ mode = "normal"
  /\ failure = "none"
  /\ roundCount = 0
  /\ rounds = 0
  /\ messages = <<>>
  /\ variables = [k \in Keys |-> Absent]
  /\ skip = FALSE
  /\ abort = FALSE
  /\ output = Absent
  /\ hasToolUse = FALSE
  /\ response = NoResponse
  /\ assistantTextMessage = ""
  /\ toolUseMessage = NoMsg
  /\ toolResultMessage = NoMsg
  /\ toolExecutionPromise = 0
  /\ roundMessages = <<>>
  /\ openBlock = "none"
  /\ currentToolUse = NoToolUse
  /\ streamedCalls = <<>>
  /\ textEvents = 0
  /\ nextId = 1
  /\ tasks = [i \in Ids |-> NoTask]
  /\ returns = <<>>

NextRegistry == Execute

SpecRegistry == InitRegistry /\ [][NextRegistry]_vars

\* ------------------------------------------------------------------ claims

\* The value of the latest return_output execution of the call (Undefined: none).
LastReturn == IF returns = <<>> THEN Undefined ELSE returns[Len(returns)].value

\* The value of the latest return_output execution launched by round r.
LastReturnOf(r) ==
  LET made == SelectSeq(returns, LAMBDA e : e.round = r)
  IN IF made = <<>> THEN Undefined ELSE made[Len(made)].value

InFlight == {id \in Ids : tasks[id].pc \in {"before", "execute", "after"}}

\* The user messages that hold an image inside a tool_result block.
ImageBearing == {i \in 1..Len(messages) : IsUser(messages, i) /\ HasImage(messages[i])}

\* The user messages after message i.
LaterUsers(i) == {j \in (i + 1)..Len(messages) : IsUser(messages, j)}

\* A round's messages have just been appended to the conversation.
JustAppended == pc \in {"decide", "forced"}

\* C1: when execute returns, the returned value is the value of the last
\* return_output execution of the call, or an empty object if there was none.
C1_ReturnsLastReturnOutput ==
  pc = "done" => output = (IF returns = <<>> THEN EmptyObject ELSE LastReturn)

\* C2: a call of execute never runs more than maxRounds + 1 rounds.
C2_AtMostMaxRoundsPlusOne == rounds <= maxRounds + 1

\* C2 witness: a call that returned after maxRounds + 1 rounds.
C2_Witness == pc = "done" /\ rounds = maxRounds + 1

\* C3 as stated: right after a round's messages are appended, only the most
\* recent user message may hold images inside a tool_result block.
C3_OnlyLastUserHoldsImages ==
  JustAppended => \A i \in ImageBearing : i = LastUser(messages)

\* C3 as amended: in the conversation a round hands to the model only the most
\* recent user message may hold images; right after the round's messages are
\* appended only the two most recent user messages may.
C3_OnlyLastTwoUsersHoldImages ==
  /\ pc \in {"stream", "join", "returned"} => \A i \in ImageBearing : i = LastUser(messages)
  /\ JustAppended => \A i \in ImageBearing : Cardinality(LaterUsers(i)) <= 1

\* C3 witness: after an append, an earlier image-only tool result is stripped.
C3_Witness ==
  /\ JustAppended
  /\ \E i \in 1..Len(messages) :
       /\ messages[i].kind = "tool_result" /\ messages[i].isArray /\ messages[i].content = <<>>
       /\ LaterUsers(i) # {}

\* A unit of the current round caught a thrown value.
ThrewInRound(id) == tasks[id].threw # "none" /\ tasks[id].round = rounds

\* C4: when a tool or hook throws, the round does not fail and the user message
\* it returns is that call's tool_result with is_error and the thrown message.
C4_ThrowBecomesErrorResult ==
  \A id \in Ids :
    ThrewInRound(id) =>
      /\ pc # "failed"
      /\ pc = "returned" =>
           /\ roundMessages # <<>>
           /\ LET m == roundMessages[Len(roundMessages)]
              IN m.kind = "tool_result" /\ m.is_error /\ m.id = id /\ m.text = "Error: boom"

\* C5: when a round returns its messages, no tool unit it launched is running.
C5_RoundReturnsAfterItsTools ==
  pc = "returned" => \A id \in InFlight : tasks[id].round # rounds

\* C6: every tool_result message of the history directly follows the assistant
\* tool_use message of the same round with the same id.
C6_ResultPairedWithUse ==
  \A i \in 1..Len(messages) :
    messages[i].kind = "tool_result" =>
      /\ i > 1
      /\ messages[i - 1].kind = "tool_use"
      /\ messages[i - 1].role = "assistant"
      /\ messages[i - 1].round = messages[i].round
      /\ messages[i - 1].id = messages[i].id

\* C7: at most one tool execution is in flight at any time.
C7_AtMostOneInFlight == Cardinality(InFlight) <= 1

\* C8: after a plain-text round the loop runs one more round, restricted to
\* return_output, and stops; the output is the value return_output got there.
C8_PlainTextForcesOneReturn ==
  pc = "done" /\ mode = "plain" =>
    /\ rounds = roundCount + 1
    /\ \A id \in Ids : tasks[id].round = rounds => tasks[id].name = "return_output"
    /\ LastReturnOf(rounds) # Undefined => output = LastReturnOf(rounds)

\* C9: no round starts after a round whose response calls return_output, and
\* the output is the value return_output got in that round.
C9_ReturnOutputEndsLoop ==
  /\ pc = "call" => ~\E i \in 1..Len(response.toolCalls) :
                       response.toolCalls[i].name = "return_output"
  /\ (pc = "done" /\ mode = "normal" /\ response.present
        /\ (\E i \in 1..Len(response.toolCalls) : response.toolCalls[i].name = "return_output")
        /\ LastReturnOf(rounds) # Undefined)
       => output = LastReturnOf(rounds)

\* The round whose locals are in place neither answered in plain text nor
\* called return_output in its response.
NeitherPlainNorReturn ==
  /\ ~(~hasToolUse /\ response.present)
  /\ ~\E i \in 1..Len(response.toolCalls) : response.toolCalls[i].name = "return_output"

UnknownToolCalled ==
  \E i \in 1..Len(response.toolCalls) : response.toolCalls[i].name \notin toolMap(mode)

\* C11: a round whose model called a tool that is not in the round's registry
\* does not return normally, and its messages are never appended.
C11_UnknownToolFailsRound ==
  UnknownToolCalled => pc \notin {"returned", "decide", "forced"}

\* The stream of the round whose locals are in place ended with an error: the
\* handler's onComplete never ran.
StreamFailed == ~response.present

\* C13: a round whose stream ended with an error does not return normally to
\* the loop.
C13_StreamErrorFailsRound ==
  pc \in {"returned", "decide", "forced"} => ~StreamFailed

\* C14: the loop never issues a model call for the conversation of a model
\* call that just failed with a stream error: when a round is about to start
\* after such a failure, the conversation has changed since.
C14_NoRetryAfterStreamError ==
  (pc = "call" /\ rounds > 0 /\ StreamFailed)
    => \/ roundMessages # <<>>
       \/ mode # "normal"
       \/ handleHistoryImageMessages(messages) # messages

\* The kinds of the messages of a sequence, in order.
Kinds(msgs) == [i \in 1..Len(msgs) |-> <<msgs[i].role, msgs[i].kind>>]

\* C20: a round returns, in this order, an assistant text message iff its
\* buffer of non-blank deltas is non-empty, an assistant tool_use message iff a
\* tool call occurred and a user tool_result message iff a tool call occurred.
C20_RoundMessagesInOrder ==
  pc = "returned" =>
    /\ Kinds(roundMessages) =
         (IF assistantTextMessage # "" THEN <<(<<"assistant", "string">>)>> ELSE <<>>)
         \o (IF hasToolUse THEN <<(<<"assistant", "tool_use">>), (<<"user", "tool_result">>)>>
             ELSE <<>>)
    /\ assistantTextMessage # "" => roundMessages[1].text = assistantTextMessage

\* C12: a round that finds the abort flag set once its stream has settled and
\* its awaited tool has completed throws "Abort": execute fails with it, the
\* conversation is left as it was and nothing runs afterwards.
C12_AbortFailsExecute ==
  [][/\ (pc = "join" /\ abort /\ pc' # "join")
          => (pc' = "failed" /\ failure' = "Abort" /\ messages' = messages)
     /\ pc = "failed" => (pc' = "failed" /\ rounds' = rounds /\ messages' = messages)]_vars

\* C12 witness: execute failed with "Abort" in its second round, whose tool
\* call was vetoed.
C12_Witness ==
  /\ pc = "failed" /\ failure = "Abort" /\ rounds = 2
  /\ toolResultMessage.text = "skip"
  /\ \A i \in 1..Len(messages) : messages[i].round # 2

\* The step on which the unit of call id calls tool.execute.
Executes(id) == tasks[id].pc # "execute" /\ tasks'[id].pc = "execute"

\* What JSON.parse makes of the texts a write_context call carries
\* (Undefined: the text is not JSON).
ParsedText(v) ==
  CASE v = Str("42") -> Num("42")
    [] v = Str("2") -> Num("2")
    [] OTHER -> Undefined

\* C15: the step on which write_context(key, value) executes leaves under key
\* the parsed value if value is JSON text and the string itself otherwise, and
\* leaves every other variable as it was; the call never throws.
C15_WriteContextStores ==
  [][\A id \in Ids :
       /\ (Executes(id) /\ tasks'[id].name = "write_context") =>
            LET in == tasks'[id].input
            IN /\ variables'[in.key] = (IF ParsedText(in.value) # Undefined
                                        THEN ParsedText(in.value) ELSE in.value)
               /\ \A k \in Keys \ {in.key} : variables'[k] = variables[k]
       /\ (tasks[id].pc = "execute" /\ tasks[id].name = "write_context"
             /\ tasks'[id].pc # "execute") => tasks'[id].threw = "none"]_vars

\* C15 witness: write_context("x", "not-json") has executed and completed, and x
\* holds the string.
C15_Witness ==
  /\ variables["x"] = Str("not-json")
  /\ \E id \in Ids : tasks[id].name = "write_context" /\ tasks[id].pc = "done"
                     /\ tasks[id].threw = "none"

\* C16: the step on which execute returns leaves no __action_output in
\* context.variables, and no step of the call removes another variable.
C16_OutputKeyDeleted ==
  [][/\ pc' = "done" => variables'[OutputKey] = Absent
     /\ \A k \in Keys \ {OutputKey} : variables[k] # Absent => variables'[k] # Absent]_vars

\* C16 witness: execute returned after return_output ran and write_context
\* wrote x; x is still there and the output key is gone.
C16_Witness ==
  /\ pc = "done" /\ returns # <<>> /\ output # EmptyObject
  /\ variables["x"] # Absent /\ variables[OutputKey] = Absent

\* The names of the tools of a list.
NamesOf(list) == {list[i].name : i \in 1..Len(list)}

\* C17: in the registry execute builds, the synthetic write_context and
\* return_output win over every tool of the same name, a context-supplied tool
\* wins over a declared tool of the same name, and every name is resolved.
C17_LaterEntriesWin ==
  pc = "while" =>
    /\ DOMAIN toolRegistry = NamesOf(tools) \cup NamesOf(contextTools) \cup {"return_output"}
    /\ \A n \in DOMAIN toolRegistry :
         toolRegistry[n] = (IF n \in {"write_context", "return_output"} THEN "synthetic"
                            ELSE IF n \in NamesOf(contextTools) THEN "context"
                            ELSE "declared")

\* The text sub-blocks of a tool_result's content, in order.
TextBlocks(content) == SelectSeq(content, LAMBDA b : b = "text")

\* C18: the step that hands the conversation to the model leaves the most
\* recent user message and every non-user message as they were, and leaves in
\* every other user message no image sub-block and exactly its text sub-blocks,
\* in order.
C18_TrimKeepsTextAndLastUser ==
  [][(pc = "call" /\ pc' = "stream") =>
       /\ Len(messages') = Len(messages)
       /\ \A i \in 1..Len(messages) :
            IF IsUser(messages, i) /\ LaterUsers(i) # {}
            THEN /\ ~HasImage(messages'[i])
                 /\ messages'[i].content = TextBlocks(messages[i].content)
                 /\ [messages'[i] EXCEPT !.content = <<>>] = [messages[i] EXCEPT !.content = <<>>]
            ELSE messages'[i] = messages[i]]_vars

\* C18 witness: the model is handed a conversation in which an earlier tool
\* result lost its only block, an image, while the most recent user message
\* still holds one.
C18_Witness ==
  /\ pc = "stream"
  /\ \E i \in 1..Len(messages) :
       /\ messages[i].kind = "tool_result" /\ messages[i].isArray /\ messages[i].content = <<>>
       /\ LastUser(messages) > i /\ HasImage(messages[LastUser(messages)])

\* C19: when the beforeToolUse hook of a call has set the skip or the abort
\* flag and resolves, the call ends there with the "skip" result and without
\* an execute; when it resolves with both flags clear, the tool's execute is
\* called with the input the hook returned, or else the original one.
C19_VetoShortCircuits ==
  [][\A id \in Ids :
       (tasks[id].pc = "before" /\ tasks'[id].pc # "before" /\ tasks'[id].threw = "none") =>
         IF tasks[id].vetoed
         THEN /\ tasks'[id].pc = "done"
              /\ returns' = returns /\ variables' = variables
              /\ RoundReads(tasks[id]) => toolResultMessage' = SkipResultMsg(id, tasks[id].round)
         ELSE (~skip /\ ~abort) =>
                /\ tasks'[id].pc = "execute"
                /\ tasks'[id].input \in HookInputs(tasks[id])]_vars

\* What the argument texts of the streamed documents mean, as JSON.
ArgumentsOf(text) ==
  CASE text = "" -> EmptyInput
    [] text = "{\"value\":1}" -> [key |-> NoKey, value |-> Num("1")]
    [] text = "{\"value\":2}" -> [key |-> NoKey, value |-> Num("2")]
    [] text = "{\"key\":\"x\",\"value\":\"42\"}" -> [key |-> "x", value |-> Str("42")]
    [] text = "{\"key\":\"x\",\"value\":\"not-json\"}" -> [key |-> "x", value |-> Str("not-json")]
    [] text = "{\"key\":\"__action_output\",\"value\":\"2\"}" -> [key |-> OutputKey, value |-> Str("2")]
    [] OTHER -> [key |-> NoKey, value |-> Absent]

\* Every fragment the vendor streams.
AllFragments == UNION {{d[i] : i \in 1..Len(d)} : d \in UNION {Docs(n) : n \in ToolNames("normal")}}

\* C21: the stream keeps at most one accumulator, open exactly while a tool-use
\* block is; a fragment is appended to it; the stop of a tool-use block hands
\* the handler one call with the block's id and name and the parse of the
\* accumulated text ({} for no text) and closes the accumulator; the stop
\* of a text block hands it none; calls are handed over in block order.
C21_OneToolReadyPerBlock ==
  [][/\ (currentToolUse # NoToolUse) <=> (openBlock = "tool_use")
     /\ (openBlock = "tool_use" /\ openBlock' = "tool_use")
          => \/ currentToolUse' = currentToolUse
             \/ \E f \in AllFragments :
                  currentToolUse' = [currentToolUse EXCEPT !.accumulatedJson = @ \o f]
     /\ (openBlock = "tool_use" /\ openBlock' = "none" /\ pc' = "stream")
          => /\ streamedCalls' = Append(streamedCalls,
                                        [id |-> currentToolUse.id, name |-> currentToolUse.name,
                                         input |-> ArgumentsOf(currentToolUse.accumulatedJson)])
             /\ hasToolUse'
             /\ currentToolUse' = NoToolUse
     /\ (openBlock = "text" /\ openBlock' = "none" /\ pc' = "stream")
          => (streamedCalls' = streamedCalls /\ hasToolUse' = hasToolUse /\ tasks' = tasks)
     /\ (streamedCalls' # streamedCalls /\ pc' = "stream")
          => (openBlock = "tool_use" /\ openBlock' = "none")
     /\ \A i, j \in 1..Len(streamedCalls) : i < j => streamedCalls[i].id < streamedCalls[j].id]_vars

\* C21 witness: the handler was handed a call without arguments and then a
\* return_output call whose arguments came in two fragments.
C21_Witness ==
  /\ Len(streamedCalls) = 2
  /\ streamedCalls[1].input = EmptyInput
  /\ streamedCalls[2].name = "return_output" /\ streamedCalls[2].input.value = Num("1")

\* The accumulated text is not JSON.
Unparsable(text) == text # "" /\ ArgumentsOf(text).value = Absent

\* The round's stream has ended and the next round has not begun.
StreamOver == pc \in {"join", "returned", "decide", "forced"}

RunningInRound ==
  {id \in InFlight : tasks[id].round = rounds /\ ~Prompt(id)}

\* C23: while the stream is open and a tool unit of the round is pending (and
\* none is about to resume), the stream's next event is processed all the same:
\* it may end with error, end with complete once its blocks have stopped, and
\* hand over a text delta, which is accumulated.
C23_StreamDoesNotWaitForTool ==
  (pc = "stream" /\ RunningInRound # {} /\ \A id \in Ids : ~Prompt(id)) =>
    /\ ENABLED StreamError
    /\ openBlock = "none" => ENABLED StreamComplete
    /\ (openBlock = "text" /\ textEvents < budget.text)
         => ENABLED (TextDelta /\ assistantTextMessage' # assistantTextMessage)

\* C23 witness: a text delta that arrived after the tool call was accumulated
\* while the tool is still running.
C23_Witness ==
  /\ pc = "stream" /\ openBlock = "text" /\ assistantTextMessage # ""
  /\ \E id \in RunningInRound : tasks[id].pc = "execute" /\ toolUseMessage.id = id

\* C24: every call of execute eventually returns or fails.
C24_ExecuteTerminates == <>(pc \in {"done", "failed"})

\* C24 witness: a call that ran a tool, got a plain-text answer and returned
\* after the forced round.
C24_Witness ==
  /\ pc = "done" /\ mode = "plain" /\ rounds = maxRounds + 1
  /\ \E id \in Ids : tasks[id].pc = "done" /\ tasks[id].round = 1

\* C25: trimming at the start of a round never raises an error on a history the
\* loop has built, and trimming a trimmed history leaves it unchanged.
C25_TrimmingNeverThrows ==
  pc = "call" =>
    /\ ~TrimThrows(messages)
    /\ handleHistoryImageMessages(handleHistoryImageMessages(messages))
         = handleHistoryImageMessages(messages)

\* C26: whenever execute ends by failing, the context does not retain the key
\* __action_output.
C26_FailureLeavesNoOutput == pc = "failed" => variables[OutputKey] = Absent
====
